---- MODULE Spec2Model ----
(***************************************************************************)
(* Model of scripts/check-style-guide.py: the page checker                 *)
(* check_short_long_option, the locale filter check_page and the corpus    *)
(* walker main.                                                            *)
(*                                                                         *)
(* A line of a page is the sequence of the substrings the two regular      *)
(* expressions of the checker can see, in their order on the line:         *)
(*   <<"ref", x>>      a substring {{-x|--long-name}}                      *)
(*   <<"label", n>>    a substring [n]                                     *)
(* Every other text matches neither expression and is left out.            *)
(* Line indices are 0-based as in the source; lines[k] of the source is    *)
(* lines[k + 1] here.                                                      *)
(***************************************************************************)
EXTENDS Integers, Sequences, FiniteSets, TLC

\* ------------------------------------------------------------------ bounds
MaxLines == 4      \* most lines of a page
MaxTokens == 3     \* most references and labels of a page, all lines together
MaxFiles == 3      \* most page files of a corpus

\* ------------------------------------------------------- the input alphabet
Letters == {"f", "a"}
LabelNames == Letters \cup {"force"}
Tokens == ({"ref"} \X Letters) \cup ({"label"} \X LabelNames)

\* the ways to place t tokens, in their order, on the n lines of a page
Placements(n, t) ==
  {at \in [1..t -> 1..n] : \A k \in 1..t : \A m \in 1..t : k <= m => at[k] <= at[m]}

\* the page of n lines whose tokens are toks, the k-th of them on line at[k]
MkPage(n, toks, at) ==
  [j \in 1..n |->
     LET before == Cardinality({k \in DOMAIN at : at[k] < j})
         here == Cardinality({k \in DOMAIN at : at[k] = j})
     IN SubSeq(toks, before + 1, before + here)]

\* ------------------------------------------------------------ the corpus
Dirs == {"pages", "pages.fr"}
PlatformNames == {"common", ".DS_Store"}
PageNames == {"foo.md", "bar.md", ".DS_Store"}
AllPaths == Dirs \X PlatformNames \X PageNames
Languages == {"", "fr", "en"}

\* the page of the checker's own specification
TestPath == <<"pages", "common", "foo.md">>
\* the two pages of main's corpus: one the checker flags, one it does not
FlaggedPage == << <<<<"label", "f">>>>, <<>>, <<<<"ref", "f">>>> >>
CleanPage == << <<<<"label", "force">>>>, <<>>, <<<<"ref", "f">>>> >>

Orderings(S) ==
  {s \in [1..Cardinality(S) -> S] : \A a \in S : \E k \in 1..Cardinality(S) : s[k] = a}

\* ------------------------------------------------------- _common (imports)
IGNORE_FILES == {".DS_Store"}
BLUE == "<blue>"
GREEN == "<green>"
RESET == "<reset>"
create_colored_line(color, line) == color \o line \o RESET
get_locale(p) == IF p[1] = "pages" THEN "en" ELSE "fr"
get_pages_dir == Orderings(Dirs)

VARIABLES
  fs,          \* the files: the path of every existing page -> its lines
  language,    \* args.language
  pages_dirs,  \* main: pages_dirs
  platforms,   \* main: platforms
  commands,    \* main: commands of the current platform
  pi, ci, di,  \* main: positions of the three for loops (1-based)
  path,        \* the page being handled
  pc,          \* the statement reached
  open,        \* the files that are open
  lines,       \* check_short_long_option: lines
  i,           \* check_short_long_option: i
  status,      \* the value returned by check_short_long_option / check_page
  output,      \* what main has printed
  opened,      \* history: the paths opened, in order
  checked,     \* history: the paths check_page was called on, in order
  examined,    \* history: the line indices searched for a reference in this call
  inspected,   \* history: <<i, d>>: the line at position d was searched for the label of line i
  run,         \* the checker's own specification: "first" or "second" call
  firstStatus  \* the checker's own specification: the status of the first call

vars == <<fs, language, pages_dirs, platforms, commands, pi, ci, di, path, pc, open,
          lines, i, status, output, opened, checked, examined, inspected, run, firstStatus>>

mainVars == <<pages_dirs, platforms, commands, pi, ci, di, output, checked>>
callVars == <<lines, i, examined, inspected>>
testVars == <<run, firstStatus>>

\* ------------------------------------------------ check_short_long_option
None == "None"
NeedsManualCheck == create_colored_line(BLUE, "needs a manual check")
FallThroughStatusFlag == NeedsManualCheck
FallThroughStatus == ""

\* line 36: re.search(r"\{\{-([a-z]{1})\|--\w+(-\w+)*\}\}", lines[i])[1]:
\* the letter of the first reference of the line, or None
command_match(line) ==
  LET refs == {k \in 1..Len(line) : line[k][1] = "ref"}
  IN IF refs = {} THEN None
     ELSE line[CHOOSE k \in refs : \A m \in refs : k <= m][2]

\* line 38: re.search(rf"\[({x})]", line)[1]: x when the line holds [x], or None
description_match(x, line) ==
  IF \E k \in 1..Len(line) : line[k] = <<"label", x>> THEN x ELSE None

\* the position a Python list of n elements gives for the index k
PyIndex(k, n) == IF k < 0 THEN k + n ELSE k

\* line 38: the position of lines[i - 2] in a page of n lines
DescriptionIndexAbove(k, n) == PyIndex(k - 1, n)
DescriptionIndex(k, n) == PyIndex(k - 2, n)

\* lines 36-39: the two tests of the iteration at index k
Flags(ls, k) ==
  LET cm == command_match(ls[k + 1])
      dm == IF cm = None THEN None
            ELSE description_match(cm, ls[DescriptionIndex(k, Len(ls)) + 1])
  IN cm # None /\ dm # None /\ cm = dm

\* range(1, len(lines))
LoopStart == 1

\* lines 31-42 as a function of the page's lines
RECURSIVE Scan(_, _)
Scan(ls, k) ==
  IF k >= Len(ls) THEN FallThroughStatus
  ELSE IF Flags(ls, k) THEN NeedsManualCheck
  ELSE Scan(ls, k + 1)

check_short_long_option(ls) == Scan(ls, LoopStart)

\* lines 32-33: with path.open(encoding="utf-8") as f: lines = f.readlines()
ReadLinesKept == lines \o fs[path]
ReadLines == fs[path]

Open ==
  /\ pc = "open"
  /\ open' = open \cup {path}
  /\ opened' = Append(opened, path)
  /\ lines' = ReadLines
  /\ i' = LoopStart
  /\ examined' = {}
  /\ inspected' = {}
  /\ pc' = "for"
  /\ UNCHANGED <<fs, language, path, status, mainVars, testVars>>

\* the open files once a return has left the with block
ClosedOnReturnLeak == open
ClosedOnReturn == open \ {path}

\* lines 35-40, one iteration of the for loop
ForIteration ==
  /\ pc = "for"
  /\ i < Len(lines)
  /\ examined' = examined \cup {i}
  /\ inspected' = IF command_match(lines[i + 1]) = None THEN inspected
                  ELSE inspected \cup {<<i, DescriptionIndex(i, Len(lines))>>}
  /\ IF Flags(lines, i)
     THEN /\ status' = NeedsManualCheck
          /\ open' = ClosedOnReturn
          /\ pc' = "return"
          /\ i' = i
     ELSE /\ i' = i + 1
          /\ UNCHANGED <<status, open, pc>>
  /\ UNCHANGED <<fs, language, path, lines, opened, mainVars, testVars>>

\* line 42, reached when the loop is exhausted
ForExit ==
  /\ pc = "for"
  /\ i >= Len(lines)
  /\ status' = FallThroughStatus
  /\ open' = ClosedOnReturn
  /\ pc' = "return"
  /\ UNCHANGED <<fs, language, path, lines, i, opened, examined, inspected,
                 mainVars, testVars>>

\* ------------------------------------------------------------- check_page
LocaleSkippedNever(locale, language_to_check) == FALSE
LocaleSkipped(locale, language_to_check) ==
  language_to_check # "" /\ locale # language_to_check

CheckPageSkip ==
  /\ pc = "check_page"
  /\ LocaleSkipped(get_locale(path), language)
  /\ checked' = Append(checked, path)
  /\ status' = ""
  /\ pc' = "return"
  /\ UNCHANGED <<fs, language, path, open, opened, callVars, testVars,
                 pages_dirs, platforms, commands, pi, ci, di, output>>

CheckPageDelegate ==
  /\ pc = "check_page"
  /\ ~LocaleSkipped(get_locale(path), language)
  /\ checked' = Append(checked, path)
  /\ pc' = "open"
  /\ UNCHANGED <<fs, language, path, open, opened, status, callVars, testVars,
                 pages_dirs, platforms, commands, pi, ci, di, output>>

\* ------------------------------------------------------------------- main
Exists(p) == p \in DOMAIN fs
DirEntries(parent) == {p[Len(parent) + 1] : p \in {q \in AllPaths : Exists(q) /\ SubSeq(q, 1, Len(parent)) = parent}}
\* lines 83 and 89: the names of a directory listing that are kept
ListedAll(names) == names
Listed(names) == {n \in names : n \notin IGNORE_FILES}

\* lines 79-83
MainStart ==
  /\ pc = "main"
  /\ pages_dirs' \in get_pages_dir
  /\ platforms' \in Orderings(Listed(DirEntries(<<"pages">>)))
  /\ pi' = 1
  /\ pc' = "platform_loop"
  /\ UNCHANGED <<fs, language, path, open, opened, status, callVars, testVars,
                 commands, ci, di, output, checked>>

\* lines 84-90
PlatformNext ==
  /\ pc = "platform_loop"
  /\ pi <= Len(platforms)
  /\ commands' \in Orderings({<<platforms[pi], n>> :
                                n \in Listed(DirEntries(<<"pages", platforms[pi]>>))})
  /\ ci' = 1
  /\ pc' = "command_loop"
  /\ UNCHANGED <<fs, language, path, open, opened, status, callVars, testVars,
                 pages_dirs, platforms, pi, di, output, checked>>

PlatformsDone ==
  /\ pc = "platform_loop"
  /\ pi > Len(platforms)
  /\ pc' = "done"
  /\ UNCHANGED <<fs, language, path, open, opened, status, callVars, testVars, mainVars>>

\* line 91
CommandNext ==
  /\ pc = "command_loop"
  /\ ci <= Len(commands)
  /\ di' = 1
  /\ pc' = "dir_loop"
  /\ UNCHANGED <<fs, language, path, open, opened, status, callVars, testVars,
                 pages_dirs, platforms, commands, pi, ci, output, checked>>

CommandsDone ==
  /\ pc = "command_loop"
  /\ ci > Len(commands)
  /\ pi' = pi + 1
  /\ pc' = "platform_loop"
  /\ UNCHANGED <<fs, language, path, open, opened, status, callVars, testVars,
                 pages_dirs, platforms, commands, ci, di, output, checked>>

\* lines 92-95
DirNext ==
  /\ pc = "dir_loop"
  /\ di <= Len(pages_dirs)
  /\ LET p == <<pages_dirs[di]>> \o commands[ci]
     IN /\ path' = p
        /\ IF Exists(p)
           THEN pc' = "check_page" /\ di' = di
           ELSE pc' = "dir_loop" /\ di' = di + 1
  /\ UNCHANGED <<fs, language, open, opened, status, callVars, testVars,
                 pages_dirs, platforms, commands, pi, ci, output, checked>>

DirsDone ==
  /\ pc = "dir_loop"
  /\ di > Len(pages_dirs)
  /\ ci' = ci + 1
  /\ pc' = "command_loop"
  /\ UNCHANGED <<fs, language, path, open, opened, status, callVars, testVars,
                 pages_dirs, platforms, commands, pi, di, output, checked>>

\* lines 96-98
rel_path(p) == p[1] \o "/" \o p[2] \o "/" \o p[3]
ShouldPrintAlways(s) == TRUE
ShouldPrint(s) == s # ""

PrintLine ==
  /\ pc = "return"
  /\ output' = IF ShouldPrint(status)
               THEN Append(output, [path |-> path,
                                    line |-> create_colored_line(GREEN, rel_path(path) \o " " \o status)])
               ELSE output
  /\ di' = di + 1
  /\ pc' = "dir_loop"
  /\ UNCHANGED <<fs, language, path, open, opened, status, callVars, testVars,
                 pages_dirs, platforms, commands, pi, ci, checked>>

\* ---------------------------------------------------------- specifications
\* a second call of check_short_long_option on the same page
CallAgain ==
  /\ pc = "return"
  /\ run = "first"
  /\ run' = "second"
  /\ firstStatus' = status
  /\ pc' = "open"
  /\ UNCHANGED <<fs, language, path, open, opened, status, callVars, mainVars>>

Idle ==
  /\ pages_dirs = <<>> /\ platforms = <<>> /\ commands = <<>>
  /\ pi = 1 /\ ci = 1 /\ di = 1
  /\ open = {} /\ lines = <<>> /\ i = LoopStart /\ status = ""
  /\ output = <<>>
  /\ opened = <<>>
  /\ checked = <<>>
  /\ examined = {} /\ inspected = {}
  /\ run = "first" /\ firstStatus = ""

\* check_short_long_option(path), called twice, on every page of at most
\* MaxLines lines and MaxTokens tokens
Init ==
  /\ \E n \in 0..MaxLines : \E t \in 0..MaxTokens :
       \E toks \in [1..t -> Tokens] : \E at \in Placements(n, t) :
         fs = [p \in {TestPath} |-> MkPage(n, toks, at)]
  /\ language = ""
  /\ path = TestPath
  /\ pc = "open"
  /\ Idle

Next == Open \/ ForIteration \/ ForExit \/ CallAgain

Spec == Init /\ [][Next]_vars

\* main(), on every corpus of at most MaxFiles page files and every -l
Corpora ==
  UNION {[S -> {FlaggedPage, CleanPage}] : S \in {T \in SUBSET AllPaths : Cardinality(T) <= MaxFiles}}

MainInit ==
  /\ fs \in Corpora
  /\ language \in Languages
  /\ path = TestPath
  /\ pc = "main"
  /\ Idle

MainNext ==
  \/ MainStart \/ PlatformNext \/ PlatformsDone \/ CommandNext \/ CommandsDone
  \/ DirNext \/ DirsDone \/ CheckPageSkip \/ CheckPageDelegate
  \/ Open \/ ForIteration \/ ForExit \/ PrintLine

MainSpec == MainInit /\ [][MainNext]_vars

\* ------------------------------------------------------------ the claims
\* the page check_short_long_option is called on, and its line at 0-based index k
page == fs[path]
LineAt(k) == page[k + 1]
HasRef(line, x) == \E k \in 1..Len(line) : line[k] = <<"ref", x>>
HasLabel(line, n) == \E k \in 1..Len(line) : line[k] = <<"label", n>>
HasAnyRef(line) == \E x \in Letters : HasRef(line, x)
Returned == pc = "return"
\* how often the path p occurs in a history
Times(log, p) == Cardinality({k \in 1..Len(log) : log[k] = p})
\* the file p exists and holds the lines ls
HasFile(p, ls) == p \in DOMAIN fs /\ fs[p] = ls

\* C1: whenever line i holds a reference {{-x|--long-name}} and line i-2 holds
\* the label [x], check_short_long_option returns "needs a manual check",
\* whatever else line i holds.
C1_MatchingPairIsFlagged ==
  Returned =>
    \A k \in 2..(Len(page) - 1) : \A x \in Letters :
      (HasRef(LineAt(k), x) /\ HasLabel(LineAt(k - 2), x)) => status = NeedsManualCheck

OnlyRefLine(k) == \A m \in 0..(Len(page) - 1) : HasAnyRef(LineAt(m)) => m = k

C3_CheckPage ==
  Returned =>
    IF language # "" /\ get_locale(path) # language
    THEN status = "" /\ Times(opened, path) = 0 /\ path \notin open
    ELSE status = check_short_long_option(fs[path]) /\ Times(opened, path) = 1

C3_Witness ==
  /\ Returned
  /\ language = "fr"
  /\ get_locale(path) = "en"
  /\ check_short_long_option(fs[path]) = NeedsManualCheck
  /\ status = ""

\* the lines main has printed for the page p
PrintedFor(p) == {k \in 1..Len(output) : output[k].path = p}
\* p's (platform, command) is enumerated from the English page set
Enumerated(p) ==
  /\ p[2] \notin IGNORE_FILES
  /\ p[3] \notin IGNORE_FILES
  /\ <<"pages", p[2], p[3]>> \in DOMAIN fs
\* what check_page(p, language) returns
CheckPageResult(p) ==
  IF language # "" /\ get_locale(p) # language THEN ""
  ELSE check_short_long_option(fs[p])

\* C4: when main has finished, every existing file of an enumerated
\* (platform, command) has exactly one printed line if check_page returns a
\* non-empty status for it and none if it returns the empty status; no other
\* path is printed.
C4_OneLinePerFlaggedPage ==
  /\ \A p \in AllPaths : Cardinality(PrintedFor(p)) <= 1
  /\ pc = "done" =>
       \A p \in AllPaths :
         /\ (Enumerated(p) /\ p \in DOMAIN fs /\ CheckPageResult(p) # "")
              => /\ Cardinality(PrintedFor(p)) = 1
                 /\ \A k \in PrintedFor(p) :
                      output[k].line =
                        create_colored_line(GREEN, rel_path(p) \o " " \o CheckPageResult(p))
         /\ ~(Enumerated(p) /\ p \in DOMAIN fs /\ CheckPageResult(p) # "")
              => PrintedFor(p) = {}

C4_Witness ==
  /\ pc = "done"
  /\ language = ""
  /\ HasFile(<<"pages", "common", "foo.md">>, FlaggedPage)
  /\ HasFile(<<"pages.fr", "common", "foo.md">>, FlaggedPage)
  /\ HasFile(<<"pages", "common", "bar.md">>, CleanPage)
  /\ Len(output) = 2

\* C5: a page of fewer than 2 lines, and a page none of whose lines holds a
\* reference, gets the empty status.
C5_ShortOrNoReferenceIsEmpty ==
  Returned =>
    ((Len(page) < 2 \/ \A k \in 0..(Len(page) - 1) : ~HasAnyRef(LineAt(k)))
       => status = "")

C5_Witness ==
  /\ Returned
  /\ Len(page) = 1
  /\ HasRef(LineAt(0), "f")
  /\ HasLabel(LineAt(0), "f")
  /\ status = ""

\* C6: a second call of check_short_long_option on the same page returns the
\* status of the first call, and no step of a call changes the page.
C6_SecondCallSameStatus ==
  /\ [](run = "second" /\ Returned => status = firstStatus)
  /\ [][fs' = fs]_vars

C6_Witness ==
  /\ run = "second"
  /\ Returned
  /\ firstStatus = NeedsManualCheck
  /\ status = NeedsManualCheck

\* C7: the line searched for the label of the reference on line i is the line
\* at index i-2, a line before line i.
C7_DescriptionTwoLinesAbove ==
  \A e \in inspected : e[2] = e[1] - 2 /\ e[2] < e[1]

\* the lines whose reference and whose line two above carry the same letter
ViolatingLines ==
  {k \in 2..(Len(page) - 1) :
     \E x \in Letters : HasRef(LineAt(k), x) /\ HasLabel(LineAt(k - 2), x)}

\* C8: the scan goes through the lines in increasing order and stops at the
\* first line whose reference and whose line two above carry the same letter;
\* no later line is examined, and the status is the one diagnostic.
C8_StopsAtFirstViolatingLine ==
  Returned =>
    IF ViolatingLines = {}
    THEN status = "" /\ examined = 1..(Len(page) - 1)
    ELSE /\ status = NeedsManualCheck
         /\ \E k \in ViolatingLines :
              /\ \A m \in ViolatingLines : k <= m
              /\ examined = 1..k

\* C9: at most one page file is open at any moment, an open page has been
\* read in full, and it is closed before main goes on to the next page.
C9_OnePageAtATime ==
  /\ Cardinality(open) <= 1
  /\ pc = "for" => open = {path} /\ lines = fs[path]
  /\ pc # "for" => open = {}

C9_Witness ==
  /\ pc = "dir_loop"
  /\ open = {}
  /\ \E p \in AllPaths : Times(opened, p) = 1 /\ HasFile(p, FlaggedPage)
  /\ \E p \in AllPaths : Times(opened, p) = 1 /\ HasFile(p, CleanPage)

\* C10: check_page is called, and a file opened or printed, only for a page
\* whose (platform, command) exists under pages and is not an ignored entry,
\* and at most once for each page.
C10_OnlyEnglishIdentifiers ==
  \A p \in AllPaths :
    /\ Times(checked, p) <= 1
    /\ Times(opened, p) <= 1
    /\ (Times(checked, p) > 0 \/ Times(opened, p) > 0 \/ p \in open \/ PrintedFor(p) # {}
          \/ (pc \in {"check_page", "open", "for", "return"} /\ path = p))
         => Enumerated(p)

C10_Witness ==
  /\ pc = "done"
  /\ language = ""
  /\ HasFile(<<"pages.fr", "common", "bar.md">>, FlaggedPage)
  /\ <<"pages", "common", "bar.md">> \notin DOMAIN fs
  /\ HasFile(<<"pages", "common", ".DS_Store">>, FlaggedPage)
  /\ Times(checked, <<"pages", "common", "foo.md">>) = 1
  /\ Len(output) = 1

====
